---------------------------- MODULE Spec2Model ----------------------------
(***************************************************************************)
(* A model of app.py, the Streamlit script that loads two geographic       *)
(* files, joins them spatially or by attribute and offers the result for   *)
(* download.                                                               *)
(*                                                                         *)
(* Streamlit executes the whole script, top to bottom, once per user       *)
(* interaction (an upload, a removal, a widget change, a button click).    *)
(* One action of the model is therefore one interaction followed by one    *)
(* complete run of the script.  What survives from run to run is the pair  *)
(* of uploaded files, st.session_state, and the st.cache_data memo of      *)
(* load_data; everything else is recomputed by the run and recorded in     *)
(* the variable run, the observable outcome of the latest run.             *)
(*                                                                         *)
(* Feature collections are sequences of rows with three columns, fid, id   *)
(* and geometry.  Geometries are points and segments of an integer line;   *)
(* the five spatial predicates are computed from their interiors and       *)
(* boundaries.  Attribute values are strings, Null is the missing value.   *)
(***************************************************************************)
EXTENDS Integers, Sequences, FiniteSets, TLC

VARIABLES left_file, right_file, session_state, cache, run

vars == <<left_file, right_file, session_state, cache, run>>

----------------------------------------------------------------------------
(* Bounds of the model *)

\* The largest number of rows of a collection drawn by InitJoin.
MaxRows == 2

----------------------------------------------------------------------------
(* Values *)

\* Python's None.
None == [kind |-> "None"]

\* A name the script has not bound in this run (gdf_left before line 67).
Unbound == [kind |-> "Unbound"]

\* An upload widget that holds no file.
NoFile == [kind |-> "NoFile"]

\* st.session_state without the key 'result_gdf'.
Absent == [kind |-> "Absent"]

\* A missing attribute value (NaN / None in a column).
Null == "<null>"

\* A missing geometry.
NullGeom == [type |-> "null", lo |-> 0, hi |-> 0]

Pt(x) == [type |-> "Point", lo |-> x, hi |-> x]

Seg(a, b) == [type |-> "LineString", lo |-> a, hi |-> b]

\* The coordinate reference systems a file can declare ("none": no .prj /
\* no crs member).
WGS84 == "EPSG:4326"

Projected == "EPSG:3857"

\* The columns of every collection of the model, as gdf.columns lists them.
Columns == {"fid", "id", "geometry"}

Predicates == {"intersects", "contains", "within", "touches", "crosses"}

JoinTypes == {"left", "right", "inner", "outer"}

GeoDataFrame(crs, rows) == [kind |-> "GeoDataFrame", crs |-> crs, rows |-> rows]

IsFrame(g) == g.kind = "GeoDataFrame"

Min(a, b) == IF a < b THEN a ELSE b

Max(a, b) == IF a < b THEN b ELSE a

RECURSIVE Flatten(_)
Flatten(ss) == IF ss = <<>> THEN <<>> ELSE Head(ss) \o Flatten(Tail(ss))

\* F applied to the value of x (x is evaluated once, as an assignment
\* statement evaluates its right-hand side).
Bind(x, F(_)) == CHOOSE y \in {F(v) : v \in {x}} : TRUE

\* F(1) \o F(2) \o ... \o F(n)
FlatMap(n, F(_)) == Flatten([i \in 1..n |-> F(i)])

\* The indices 1..n that satisfy P, in increasing order.
Filter(n, P(_)) == Flatten([i \in 1..n |-> IF P(i) THEN <<i>> ELSE <<>>])

----------------------------------------------------------------------------
(* Coordinates and reprojection *)

\* A coordinate of the projected system, from its longitude/latitude value.
Project(x) == 3 * x + 1

\* pyproj's transform from source to target, on one coordinate.
Transform(source, target, x) ==
    IF source = target THEN x
    ELSE IF source = Projected /\ target = WGS84 THEN (x - 1) \div 3
    ELSE Project(x)

TransformGeom(source, target, g) ==
    IF g.type = "null" THEN g
    ELSE [g EXCEPT !.lo = Transform(source, target, g.lo),
                   !.hi = Transform(source, target, g.hi)]

\* gdf.set_crs(epsg=4326, inplace=True): tags the frame, moves nothing.
set_crs(gdf, crs) == [gdf EXCEPT !.crs = crs]

\* gdf.to_crs(epsg=4326): every geometry transformed, the frame tagged.
to_crs(gdf, crs) ==
    [gdf EXCEPT !.crs = crs,
                !.rows = [i \in 1..Len(gdf.rows) |->
                            [gdf.rows[i] EXCEPT !.geometry =
                                TransformGeom(gdf.crs, crs, @)]]]

----------------------------------------------------------------------------
(* Dataset Loader *)

\* What gpd.read_file yields for a readable file: its rows as stored, its
\* declared CRS (None when it declares none).
read_file(f) == GeoDataFrame(f.crs, f.rows)

\* st.error(f"... {uploaded_file.name}: {e}")
LoadError(f) == [msg |-> "load_error", file |-> f.name]

\* load_data without the st.error call: the failure is swallowed.
LoadFailure_silent(f) == [gdf |-> None, errors |-> {}]

\* except Exception as e: st.error(...); return None
LoadFailure(f) == [gdf |-> None, errors |-> {LoadError(f)}]

\* Lines 34-36 with set_crs in the place of to_crs: the frame is tagged
\* EPSG:4326 and its coordinates stay where they are.
normalize_crs_tag_only(gdf) == set_crs(gdf, WGS84)

\* Lines 34-36: a frame without a CRS is tagged EPSG:4326, and the frame
\* is reprojected to EPSG:4326.
normalize_crs(gdf) ==
    to_crs(IF gdf.crs = "none" THEN set_crs(gdf, WGS84) ELSE gdf, WGS84)

\* The body of load_data.  f.fault names the statement that raises for
\* this upload: "write" (lines 22-25), "read" (lines 28-31), "crs"
\* (lines 34-36), or "none".
load_data_body(f) ==
    IF f.fault = "write" THEN LoadFailure(f)
    ELSE IF f.fault = "read" THEN LoadFailure(f)
    ELSE IF f.fault = "crs" THEN LoadFailure(f)
    ELSE [gdf |-> normalize_crs(read_file(f)), errors |-> {}]

\* @st.cache_data: a call with an upload seen before returns the stored
\* value and replays the elements (st.error) the first call drew.
load_data(f, memo) ==
    IF f \in DOMAIN memo
    THEN [gdf |-> memo[f].gdf, errors |-> memo[f].errors, cache |-> memo]
    ELSE LET r == load_data_body(f)
         IN  [gdf |-> r.gdf, errors |-> r.errors,
              cache |-> [u \in DOMAIN memo \cup {f} |->
                            IF u = f THEN r ELSE memo[u]]]

----------------------------------------------------------------------------
(* Spatial predicates *)

\* A geometry as point sets of the line with every coordinate doubled:
\* the even atom 2x is the point x, the odd atom 2x+1 the open interval
\* between x and x+1.  A point's interior is the point itself and its
\* boundary is empty; a segment's boundary is its two end points.
Interior(g) ==
    IF g.type = "null" THEN {}
    ELSE IF g.type = "Point" THEN {2 * g.lo}
    ELSE (2 * g.lo + 1) .. (2 * g.hi - 1)

Boundary(g) ==
    IF g.type = "LineString" THEN {2 * g.lo, 2 * g.hi} ELSE {}

Closure(g) == Interior(g) \cup Boundary(g)

\* The dimension of a set of atoms: 1 when it holds an open interval.
Dim(atoms) == IF \E a \in atoms : a % 2 = 1 THEN 1 ELSE 0

\* predicate(a, b) as the spatial index evaluates it; a missing geometry
\* satisfies no predicate.
Holds(predicate, a, b) ==
    LET shared == Closure(a) \cap Closure(b)
        inner == Interior(a) \cap Interior(b)
    IN  /\ a.type # "null"
        /\ b.type # "null"
        /\ CASE predicate = "intersects" -> shared # {}
             [] predicate = "contains" ->
                    Closure(b) \subseteq Closure(a) /\ inner # {}
             [] predicate = "within" ->
                    Closure(a) \subseteq Closure(b) /\ inner # {}
             [] predicate = "touches" -> shared # {} /\ inner = {}
             [] predicate = "crosses" ->
                    /\ inner # {}
                    /\ Dim(inner) < Max(Dim(Closure(a)), Dim(Closure(b)))
                    /\ ~(Closure(a) \subseteq Closure(b))
                    /\ ~(Closure(b) \subseteq Closure(a))

----------------------------------------------------------------------------
(* Join Engine *)

\* One row of a join result: the left row's attributes and geometry, the
\* right row's attributes, and sjoin's index_right column (the position of
\* the right row, Null in a row without a match and in every merge row).
Joined(l, r, index_right) ==
    [fid_left |-> l.fid, id_left |-> l.id, geometry |-> l.geometry,
     index_right |-> index_right, fid_right |-> r.fid, id_right |-> r.id]

\* The row pandas fills in for the side that has no match.
Missing == [fid |-> Null, id |-> Null, geometry |-> NullGeom]

\* gpd.sjoin(left, right, predicate=predicate, how="inner"): a left row
\* without a match is dropped.
sjoin_inner(left, right, predicate) ==
    LET L == left.rows
        R == right.rows
        hits(i) == Filter(Len(R), LAMBDA j :
                       Holds(predicate, L[i].geometry, R[j].geometry))
        rowsOf(i) ==
            [k \in 1..Len(hits(i)) |->
                Joined(L[i], R[hits(i)[k]], ToString(hits(i)[k] - 1))]
    IN  GeoDataFrame(left.crs, FlatMap(Len(L), rowsOf))

\* gpd.sjoin(left, right, predicate=predicate, how="left")
sjoin(left, right, predicate) ==
    LET L == left.rows
        R == right.rows
        hits(i) == Filter(Len(R), LAMBDA j :
                       Holds(predicate, L[i].geometry, R[j].geometry))
        rowsOf(i) ==
            IF hits(i) = <<>> THEN << Joined(L[i], Missing, Null) >>
            ELSE [k \in 1..Len(hits(i)) |->
                    Joined(L[i], R[hits(i)[k]], ToString(hits(i)[k] - 1))]
    IN  GeoDataFrame(left.crs, FlatMap(Len(L), rowsOf))

\* gdf_right.drop(columns='geometry'): the columns that are left.
drop_geometry(columns) == columns \ {"geometry"}

\* The value of a key column in a row, with the kind of value it is.
KeyOf(row, col) ==
    [geom |-> col = "geometry",
     null |-> IF col = "geometry" THEN row.geometry.type = "null"
              ELSE row[col] = Null,
     v |-> row[col]]

\* pandas matches two keys when they are equal, and matches a missing key
\* with a missing key.
KeyMatch(a, b) ==
    \/ a.null /\ b.null
    \/ ~a.null /\ ~b.null /\ a.geom = b.geom /\ a.v = b.v

\* A merge that looks each left key up in a table of the right rows: a
\* left row gets its first partner only.
merge_rows_first_match(L, R, col_left, col_right, join_type) ==
    LET match(i, j) == KeyMatch(KeyOf(L[i], col_left), KeyOf(R[j], col_right))
        ofLeft(i) == Filter(Len(R), LAMBDA j : match(i, j))
        ofRight(j) == Filter(Len(L), LAMBDA i : match(i, j))
        leftRows(keep) ==
            FlatMap(Len(L), LAMBDA i :
                IF ofLeft(i) = <<>>
                THEN (IF keep THEN << Joined(L[i], Missing, Null) >> ELSE <<>>)
                ELSE << Joined(L[i], R[ofLeft(i)[1]], Null) >>)
        rightRows(matched) ==
            FlatMap(Len(R), LAMBDA j :
                IF ofRight(j) = <<>> THEN << Joined(Missing, R[j], Null) >>
                ELSE IF matched
                     THEN << Joined(L[ofRight(j)[1]], R[j], Null) >>
                     ELSE <<>>)
    IN  CASE join_type = "left" -> leftRows(TRUE)
          [] join_type = "inner" -> leftRows(FALSE)
          [] join_type = "right" -> rightRows(TRUE)
          [] join_type = "outer" -> leftRows(TRUE) \o rightRows(FALSE)

\* The rows of left.merge(right, left_on=col_left, right_on=col_right,
\* how=join_type) for key columns both frames have.
merge_rows(L, R, col_left, col_right, join_type) ==
    LET match(i, j) == KeyMatch(KeyOf(L[i], col_left), KeyOf(R[j], col_right))
        ofLeft(i) == Filter(Len(R), LAMBDA j : match(i, j))
        ofRight(j) == Filter(Len(L), LAMBDA i : match(i, j))
        leftRows(keep) ==
            FlatMap(Len(L), LAMBDA i :
                IF ofLeft(i) = <<>>
                THEN (IF keep THEN << Joined(L[i], Missing, Null) >> ELSE <<>>)
                ELSE [k \in 1..Len(ofLeft(i)) |->
                        Joined(L[i], R[ofLeft(i)[k]], Null)])
        rightRows(matched) ==
            FlatMap(Len(R), LAMBDA j :
                IF ofRight(j) = <<>> THEN << Joined(Missing, R[j], Null) >>
                ELSE IF matched
                     THEN [k \in 1..Len(ofRight(j)) |->
                             Joined(L[ofRight(j)[k]], R[j], Null)]
                     ELSE <<>>)
    IN  CASE join_type = "left" -> leftRows(TRUE)
          [] join_type = "inner" -> leftRows(FALSE)
          [] join_type = "right" -> rightRows(TRUE)
          [] join_type = "outer" -> leftRows(TRUE) \o rightRows(FALSE)

\* gdf_left.merge(gdf_right.drop(columns='geometry'), left_on=col_left,
\* right_on=col_right, how=join_type).  A key that is not a column of the
\* frame merged raises KeyError.  Keys of different kinds (a geometry
\* column against an attribute column) are merged or rejected according
\* to the library build: mixed_ok says which.
merge(left, right, col_left, col_right, join_type, mixed_ok) ==
    IF col_left \notin Columns \/ col_right \notin drop_geometry(Columns)
    THEN [raised |-> "KeyError", frame |-> None]
    ELSE IF col_left = "geometry" /\ ~mixed_ok
    THEN [raised |-> "ValueError", frame |-> None]
    ELSE [raised |-> "none",
          frame |-> GeoDataFrame(left.crs,
                       merge_rows(left.rows, right.rows, col_left, col_right,
                                  join_type))]

----------------------------------------------------------------------------
(* Exporter *)

\* The GeoJSON geometry object of a geometry.
GeoJSONGeometry(g) ==
    IF g.type = "null" THEN [type |-> "null", coordinates |-> <<>>]
    ELSE IF g.type = "Point"
    THEN [type |-> "Point", coordinates |-> << g.lo >>]
    ELSE [type |-> "LineString", coordinates |-> << g.lo, g.hi >>]

\* res.to_json(): a FeatureCollection with one Feature per row.
to_json(res) ==
    [type |-> "FeatureCollection",
     features |-> [i \in 1..Len(res.rows) |->
        [type |-> "Feature",
         properties |-> [c \in DOMAIN res.rows[i] \ {"geometry"} |->
                            res.rows[i][c]],
         geometry |-> GeoJSONGeometry(res.rows[i].geometry)]]]

\* res.head(): the first five rows.
head(res) == SubSeq(res.rows, 1, Min(5, Len(res.rows)))

----------------------------------------------------------------------------
(* The script *)

\* The widgets of the join section and the button pressed in a run.
Click(button, predicate, col_left, col_right, join_type) ==
    [button |-> button, predicate |-> predicate, col_left |-> col_left,
     col_right |-> col_right, join_type |-> join_type]

\* A run no button started: the select boxes show their first options.
NoClick == Click("none", "intersects", "fid", "fid", "left")

\* The script's names and what it has drawn, before line 66.
Start(memo, held, click) ==
    [cache |-> memo, held |-> held, click |-> click,
     gdf |-> [left |-> Unbound, right |-> Unbound],
     errors |-> {}, previews |-> {}, buttons |-> {},
     exc |-> "none", joined |-> Absent, success |-> -1,
     shown |-> "none", table |-> <<>>, download |-> None]

\* gdf.geometry.centroid.y.mean() is NaN when no row has a geometry.
CentreIsNaN(gdf) == \A i \in 1..Len(gdf.rows) : gdf.rows[i].geometry.type = "null"

\* display_file_info(gdf, title): folium.Map refuses a NaN location in the
\* builds that validate it (nan_ok = FALSE) and draws the map otherwise.
display_file_info(c, gdf, side, nan_ok) ==
    IF CentreIsNaN(gdf) /\ ~nan_ok
    THEN [c EXCEPT !.exc = "ValueError@52"]
    ELSE [c EXCEPT !.previews = @ \cup {side}]

\* Lines 66-69 (side = "left") and 71-74 (side = "right").
LoadSection(c, side, file, nan_ok) ==
    IF c.exc # "none" \/ file = NoFile THEN c
    ELSE LET r == load_data(file, c.cache)
             c1 == [c EXCEPT !.cache = r.cache, !.gdf[side] = r.gdf,
                             !.errors = @ \cup r.errors]
         IN  IF r.gdf # None THEN display_file_info(c1, r.gdf, side, nan_ok)
             ELSE c1

\* The spatial tab with setdefault in the place of the assignment: a
\* result already held is kept.
SpatialTab_keeps_first(c) ==
    LET c1 == [c EXCEPT !.buttons = @ \cup {"spatial"}]
    IN  IF c.click.button # "spatial" THEN c1
        ELSE IF c.gdf.left = None \/ c.gdf.right = None
        THEN [c1 EXCEPT !.exc = "ValueError@89"]
        ELSE LET result == sjoin(c.gdf.left, c.gdf.right, c.click.predicate)
             IN  [c1 EXCEPT !.held = IF c.held = Absent THEN result ELSE c.held,
                            !.joined = result, !.success = Len(result.rows)]

\* Lines 84-91: the spatial tab.  gpd.sjoin raises when a frame is None.
SpatialTab(c) ==
    LET c1 == [c EXCEPT !.buttons = @ \cup {"spatial"}]
    IN  IF c.click.button # "spatial" THEN c1
        ELSE IF c.gdf.left = None \/ c.gdf.right = None
        THEN [c1 EXCEPT !.exc = "ValueError@89"]
        ELSE LET result == sjoin(c.gdf.left, c.gdf.right, c.click.predicate)
             IN  [c1 EXCEPT !.held = result, !.joined = result,
                            !.success = Len(result.rows)]

\* The attribute tab with the old result removed from the session state
\* before the merge is called.
AttributeTab_clears_first(c, mixed_ok) ==
    IF c.exc # "none" THEN c
    ELSE IF c.gdf.left = None THEN [c EXCEPT !.exc = "AttributeError@95"]
    ELSE IF c.gdf.right = None THEN [c EXCEPT !.exc = "AttributeError@96"]
    ELSE LET c1 == [c EXCEPT !.buttons = @ \cup {"attribute"}]
         IN  IF c.click.button # "attribute" THEN c1
             ELSE LET m == merge(c.gdf.left, c.gdf.right, c.click.col_left,
                                 c.click.col_right, c.click.join_type,
                                 mixed_ok)
                  IN  IF m.raised # "none"
                      THEN [c1 EXCEPT !.held = Absent,
                                      !.exc = m.raised \o "@102"]
                      ELSE [c1 EXCEPT !.held = m.frame, !.joined = m.frame,
                                      !.success = Len(m.frame.rows)]

\* Lines 93-104: the attribute tab.  gdf_left.columns and gdf_right.columns
\* are read to fill the select boxes before the button is drawn.
AttributeTab(c, mixed_ok) ==
    IF c.exc # "none" THEN c
    ELSE IF c.gdf.left = None THEN [c EXCEPT !.exc = "AttributeError@95"]
    ELSE IF c.gdf.right = None THEN [c EXCEPT !.exc = "AttributeError@96"]
    ELSE LET c1 == [c EXCEPT !.buttons = @ \cup {"attribute"}]
         IN  IF c.click.button # "attribute" THEN c1
             ELSE LET m == merge(c.gdf.left, c.gdf.right, c.click.col_left,
                                 c.click.col_right, c.click.join_type,
                                 mixed_ok)
                  IN  IF m.raised # "none"
                      THEN [c1 EXCEPT !.exc = m.raised \o "@102"]
                      ELSE [c1 EXCEPT !.held = m.frame, !.joined = m.frame,
                                      !.success = Len(m.frame.rows)]

\* Lines 79-104.
JoinSection(c, left, right, mixed_ok) ==
    IF c.exc # "none" \/ left = NoFile \/ right = NoFile THEN c
    ELSE Bind(SpatialTab(c), LAMBDA c1 : AttributeTab(c1, mixed_ok))

\* Lines 107-128 without the len(res) > 0 test: every held result is
\* shown and offered for download.
ResultSection_exports_empty(c) ==
    IF c.exc # "none" THEN c
    ELSE IF c.held = Absent THEN [c EXCEPT !.shown = "prompt"]
    ELSE [c EXCEPT !.shown = "result", !.table = head(c.held),
                   !.download = to_json(c.held)]

\* Lines 107-128.
ResultSection(c) ==
    IF c.exc # "none" THEN c
    ELSE IF c.held = Absent THEN [c EXCEPT !.shown = "prompt"]
    ELSE IF Len(c.held.rows) > 0
    THEN [c EXCEPT !.shown = "result", !.table = head(c.held),
                   !.download = to_json(c.held)]
    ELSE [c EXCEPT !.shown = "warning"]

\* One run of the script.  env holds what the library builds decide.
Script(left, right, held, memo, click, env) ==
    Bind(Start(memo, held, click), LAMBDA c0 :
    Bind(LoadSection(c0, "left", left, env.nan_ok), LAMBDA c1 :
    Bind(LoadSection(c1, "right", right, env.nan_ok), LAMBDA c2 :
    Bind(JoinSection(c2, left, right, env.mixed_ok), LAMBDA c3 :
    ResultSection(c3)))))

\* The library builds a run can meet.  A choice that the run cannot
\* observe is fixed: nan_ok matters only when an upload has no geometry at
\* all, mixed_ok only when the attribute join is keyed on the geometry.
Envs(left, right, click) ==
    LET blank(f) == f # NoFile /\ f.fault = "none" /\ CentreIsNaN(f)
    IN  { env \in [nan_ok : BOOLEAN, mixed_ok : BOOLEAN] :
            /\ env.nan_ok \/ blank(left) \/ blank(right)
            /\ env.mixed_ok \/ (click.button = "attribute"
                                  /\ click.col_left = "geometry") }

\* What a run leaves behind: the widget values and the button it ran
\* with, the frames it loaded, what it drew, the exception that ended it,
\* and the value of the join call that returned in it (if one did).
Outcome(c) ==
    [click |-> c.click, gdf |-> c.gdf, errors |-> c.errors,
     previews |-> c.previews, buttons |-> c.buttons, exc |-> c.exc,
     joined |-> c.joined, success |-> c.success, shown |-> c.shown,
     table |-> c.table, download |-> c.download]

\* The interaction changes the uploads to (left, right) and the script runs.
Rerun(left, right, click) ==
    \E env \in Envs(left, right, click) :
    \E c \in {Script(left, right, session_state, cache, click, env)} :
            /\ left_file' = left
            /\ right_file' = right
            /\ session_state' = c.held
            /\ cache' = c.cache
            /\ run' = Outcome(c)

----------------------------------------------------------------------------
(* Uploads *)

File(name, fault, crs, rows) ==
    [kind |-> "File", name |-> name, fault |-> fault, crs |-> crs,
     rows |-> rows]

Row(fid, id, geometry) == [fid |-> fid, id |-> id, geometry |-> geometry]

\* The files offered to the left uploader (type=['zip']): a shapefile in
\* the projected system, a shapefile without a .prj and a truncated
\* archive.
LeftCatalog ==
    { File("districts.zip", "none", Projected,
           << Row("f1", "A", Seg(Project(0), Project(1))),
              Row("f2", "B", Seg(Project(1), Project(2))) >>),
      File("parcels.zip", "none", "none", << Row("f1", "D", Seg(0, 2)) >>),
      File("truncated.zip", "read", "none", <<>>) }

\* The files offered to the right uploader (type=['json', 'geojson']):
\* points that declare no CRS, with a repeated id; a document whose
\* reprojection fails; a document that cannot be written to disk.
RightCatalog ==
    { File("stations.json", "none", "none",
           << Row("f1", "B", Pt(1)), Row("f2", "B", Pt(2)),
              Row("f3", "D", Pt(0)) >>),
      File("badcrs.geojson", "crs", Projected, << Row("f1", "B", Pt(1)) >>),
      File("unwritable.json", "write", "none", <<>>) }

\* The inputs of the join-engine specification: every collection of at
\* most MaxRows rows over the geometries below (ids equal), and every one
\* over the ids below (geometries equal).
Geoms == {Pt(1), Seg(0, 1), Seg(0, 2), NullGeom}

Ids == {"A", "B", Null}

fid(i) == "f" \o ToString(i)

Tables(values) == UNION {[1..n -> values] : n \in 0..MaxRows}

ByGeometry(name) ==
    { File(name, "none", WGS84,
           [i \in 1..Len(t) |-> Row(fid(i), "A", t[i])]) : t \in Tables(Geoms) }

ById(name, geometry) ==
    { File(name, "none", WGS84,
           [i \in 1..Len(t) |-> Row(fid(i), t[i], geometry)]) : t \in Tables(Ids) }

JoinInputs ==
    (ByGeometry("left.zip") \X ByGeometry("right.geojson"))
        \cup (ById("left.zip", Seg(0, 2)) \X ById("right.geojson", Pt(1)))

----------------------------------------------------------------------------
(* The session *)

\* A new session: no upload, an empty session state, an empty memo; the
\* script has run once.
Init ==
    /\ left_file = NoFile
    /\ right_file = NoFile
    /\ session_state = Absent
    /\ cache = <<>>
    /\ \E env \in Envs(NoFile, NoFile, NoClick) :
          run = Outcome(Script(NoFile, NoFile, Absent, <<>>, NoClick, env))

UploadLeft ==
    \E f \in LeftCatalog : f # left_file /\ Rerun(f, right_file, NoClick)

RemoveLeft == left_file # NoFile /\ Rerun(NoFile, right_file, NoClick)

UploadRight ==
    \E f \in RightCatalog : f # right_file /\ Rerun(left_file, f, NoClick)

RemoveRight == right_file # NoFile /\ Rerun(left_file, NoFile, NoClick)

\* Any other interaction with a widget on the page (a select box, a map).
Interact ==
    /\ run.buttons # {} \/ run.previews # {}
    /\ Rerun(left_file, right_file, NoClick)

\* The spatial join button, drawn by the latest run, is pressed.
ClickSpatial ==
    /\ "spatial" \in run.buttons
    /\ \E predicate \in Predicates :
          Rerun(left_file, right_file,
                Click("spatial", predicate, "fid", "fid", "left"))

\* The attribute join button, drawn by the latest run, is pressed; the
\* select boxes offer gdf_left.columns and gdf_right.columns.
ClickAttribute ==
    /\ "attribute" \in run.buttons
    /\ \E col_left \in Columns, col_right \in Columns, join_type \in JoinTypes :
          Rerun(left_file, right_file,
                Click("attribute", "intersects", col_left, col_right, join_type))

Next ==
    \/ UploadLeft
    \/ RemoveLeft
    \/ UploadRight
    \/ RemoveRight
    \/ Interact
    \/ ClickSpatial
    \/ ClickAttribute

Spec == Init /\ [][Next]_vars

\* The join engine on every pair of bounded inputs: a new session in which
\* the left file and then the right file of a pair were uploaded, and the
\* first join run in it.
InitJoin ==
    \E pair \in JoinInputs :
    \E env1 \in Envs(pair[1], NoFile, NoClick),
       env2 \in Envs(pair[1], pair[2], NoClick) :
    \E c1 \in {Script(pair[1], NoFile, Absent, <<>>, NoClick, env1)} :
    \E c2 \in {Script(pair[1], pair[2], c1.held, c1.cache, NoClick, env2)} :
            /\ left_file = pair[1]
            /\ right_file = pair[2]
            /\ session_state = c2.held
            /\ cache = c2.cache
            /\ run = Outcome(c2)

\* The first press of a join button in the session, of either kind.
FirstSpatial == run.click.button = "none" /\ ClickSpatial

FirstAttribute == run.click.button = "none" /\ ClickAttribute

NextJoin == FirstSpatial \/ FirstAttribute

JoinSpec == InitJoin /\ [][NextJoin]_vars

----------------------------------------------------------------------------
(* Properties *)

Sides == {"left", "right"}

Upload(side) == IF side = "left" THEN left_file ELSE right_file

BothUploaded == left_file # NoFile /\ right_file # NoFile

\* The exceptions that end a run inside the join section (lines 79-104).
JoinSectionExceptions ==
    {"ValueError@89", "AttributeError@95", "AttributeError@96",
     "KeyError@102", "ValueError@102"}

\* C1: when both files are uploaded and load_data returned None for at
\* least one of them, the run is ended by no exception of the join
\* section, and the input that did load is previewed.
C1_PipelineContinues ==
    (BothUploaded /\ (run.gdf.left = None \/ run.gdf.right = None))
        => /\ run.exc \notin JoinSectionExceptions
           /\ \A side \in Sides :
                IsFrame(run.gdf[side]) => side \in run.previews

\* The message an Invalid-Key failure would show for a key.
InvalidKey(key) == [msg |-> "invalid_key", key |-> key]

\* C2: an attribute join whose right key is not a column of the frame
\* that is merged (the right frame without its geometry) ends in a message
\* that names the key, and in no exception.
C2_InvalidKeySurfaced ==
    (/\ run.click.button = "attribute"
     /\ IsFrame(run.gdf.left)
     /\ IsFrame(run.gdf.right)
     /\ run.click.col_right \notin drop_geometry(Columns))
        => /\ run.exc = "none"
           /\ InvalidKey(run.click.col_right) \in run.errors

\* A value of column col is missing.
IsMissing(v, col) == IF col = "geometry" THEN v.type = "null" ELSE v = Null

\* The left row l and the right row r have equal keys under the widgets of
\* the latest run: both keys missing, or both present, of one kind and equal.
KeysEqual(l, r) ==
    LET cl == run.click.col_left
        cr == run.click.col_right
    IN  \/ IsMissing(l[cl], cl) /\ IsMissing(r[cr], cr)
        \/ /\ ~IsMissing(l[cl], cl)
           /\ ~IsMissing(r[cr], cr)
           /\ (cl = "geometry") = (cr = "geometry")
           /\ l[cl] = r[cr]

\* The latest run completed an attribute join in left mode.
LeftMerge ==
    /\ run.click.button = "attribute"
    /\ run.click.join_type = "left"
    /\ run.joined # Absent

\* C3 as the specification states it: a left-mode attribute join has
\* exactly as many rows as the left input.
C3_LeftCountExact ==
    LeftMerge => Len(run.joined.rows) = Len(run.gdf.left.rows)

\* C3, amended: a left-mode attribute join holds every left row once per
\* right row with an equal key, and once with null right attributes when
\* there is none; its row count is at least the left row count and equals
\* it when no left key has more than one partner.
C3_LeftMergeRows ==
    LeftMerge =>
        LET L == run.gdf.left.rows
            R == run.gdf.right.rows
            out == run.joined.rows
            partners(i) == {j \in 1..Len(R) : KeysEqual(L[i], R[j])}
            copies(i) == {k \in 1..Len(out) : out[k].fid_left = L[i].fid}
        IN  /\ \A k \in 1..Len(out) : \E i \in 1..Len(L) : k \in copies(i)
            /\ \A i \in 1..Len(L) :
                 /\ Cardinality(copies(i)) = Max(1, Cardinality(partners(i)))
                 /\ \A k \in copies(i) :
                      /\ out[k].id_left = L[i].id
                      /\ out[k].geometry = L[i].geometry
                 /\ partners(i) = {} =>
                      \A k \in copies(i) :
                          out[k].fid_right = Null /\ out[k].id_right = Null
                 /\ partners(i) # {} =>
                      {out[k].fid_right : k \in copies(i)}
                          = {R[j].fid : j \in partners(i)}
            /\ \A k1, k2 \in 1..Len(out) :
                 \A i1, i2 \in 1..Len(L) :
                    (k1 \in copies(i1) /\ k2 \in copies(i2) /\ i1 < i2)
                        => k1 < k2
            /\ Len(out) >= Len(L)
            /\ (\A i \in 1..Len(L) : Cardinality(partners(i)) <= 1)
                  => Len(out) = Len(L)

\* A left-mode join in which one left row has two partners and another
\* has none.
C3_Witness ==
    /\ LeftMerge
    /\ Len(run.joined.rows) > Len(run.gdf.left.rows)
    /\ \E k \in 1..Len(run.joined.rows) : run.joined.rows[k].fid_right = Null

\* The latest run completed a join and its result has no row.
EmptyJoin == run.joined # Absent /\ Len(run.joined.rows) = 0

\* C4 as the specification states it: a join result without rows is
\* exported and offered for download like any other.
C4_EmptyResultExported ==
    EmptyJoin => run.exc = "none" /\ run.download = to_json(run.joined)

\* C4, amended: a join result without rows raises nothing and becomes the
\* held result; the result section then shows the warning, and neither a
\* table nor a download.  A download is offered only for a held result
\* with at least one row.
C4_EmptyResultWarned ==
    /\ EmptyJoin => run.exc = "none" /\ session_state = run.joined
    /\ (run.exc = "none" /\ session_state # Absent
            /\ Len(session_state.rows) = 0)
          => /\ run.shown = "warning"
             /\ run.table = <<>>
             /\ run.download = None
    /\ run.download # None
          => session_state # Absent /\ Len(session_state.rows) > 0

\* An inner attribute join without a matching key has just run.
C4_Witness ==
    /\ EmptyJoin
    /\ run.click.button = "attribute"
    /\ run.click.join_type = "inner"
    /\ run.shown = "warning"

\* The latest run completed a spatial join.
SpatialJoin == run.click.button = "spatial" /\ run.joined # Absent

\* C5: the spatial join holds, for every left row, one row per right row
\* whose geometry satisfies the predicate with the left geometry, with the
\* left geometry and both rows' attributes; a left row without such a
\* right row is held once with null right attributes; so the result has at
\* least as many rows as the left input and no row of a right feature
\* that matches no left feature.
C5_SpatialJoinRows ==
    SpatialJoin =>
        LET L == run.gdf.left.rows
            R == run.gdf.right.rows
            out == run.joined.rows
            partners(i) ==
                {j \in 1..Len(R) :
                    Holds(run.click.predicate, L[i].geometry, R[j].geometry)}
            copies(i) == {k \in 1..Len(out) : out[k].fid_left = L[i].fid}
        IN  /\ \A k \in 1..Len(out) : \E i \in 1..Len(L) : k \in copies(i)
            /\ \A i \in 1..Len(L) :
                 /\ Cardinality(copies(i)) = Max(1, Cardinality(partners(i)))
                 /\ \A k \in copies(i) :
                      /\ out[k].id_left = L[i].id
                      /\ out[k].geometry = L[i].geometry
                 /\ partners(i) = {} =>
                      \A k \in copies(i) :
                          /\ out[k].fid_right = Null
                          /\ out[k].id_right = Null
                          /\ out[k].index_right = Null
                 /\ partners(i) # {} =>
                      /\ {out[k].fid_right : k \in copies(i)}
                            = {R[j].fid : j \in partners(i)}
                      /\ \A k \in copies(i) : \E j \in partners(i) :
                            /\ out[k].fid_right = R[j].fid
                            /\ out[k].id_right = R[j].id
                            /\ out[k].index_right = ToString(j - 1)
            /\ Len(out) >= Len(L)
            /\ \A j \in 1..Len(R) :
                 (\E k \in 1..Len(out) : out[k].fid_right = R[j].fid)
                    => \E i \in 1..Len(L) : j \in partners(i)

\* A spatial join in which one left row has no partner and another row of
\* the result has one.
C5_Witness ==
    /\ SpatialJoin
    /\ Len(run.gdf.left.rows) > 1
    /\ \E k \in 1..Len(run.joined.rows) : run.joined.rows[k].fid_right = Null
    /\ \E k \in 1..Len(run.joined.rows) : run.joined.rows[k].fid_right # Null

\* C6: load_data returns None and reports a message that names the file
\* for every upload that cannot be written, read or reprojected, and
\* returns a frame and reports nothing for every other upload; a run is
\* ended by no exception of load_data.
C6_LoadFailureReported ==
    /\ run.exc \in {"none", "ValueError@52"} \cup JoinSectionExceptions
    /\ left_file # NoFile => run.gdf.left # Unbound
    /\ \A side \in Sides :
         (Upload(side) # NoFile /\ run.gdf[side] # Unbound) =>
            IF Upload(side).fault = "none"
            THEN /\ IsFrame(run.gdf[side])
                 /\ \A e \in run.errors : e.file # Upload(side).name
            ELSE /\ run.gdf[side] = None
                 /\ [msg |-> "load_error", file |-> Upload(side).name]
                        \in run.errors

\* The left upload failed to load and the right upload loaded.
C6_Witness ==
    /\ BothUploaded
    /\ left_file.fault = "read"
    /\ run.gdf.left = None
    /\ IsFrame(run.gdf.right)

\* The join call of a run, evaluated again on the frames of that run.
JoinCall(r) ==
    IF r.click.button = "spatial"
    THEN sjoin(r.gdf.left, r.gdf.right, r.click.predicate)
    ELSE merge(r.gdf.left, r.gdf.right, r.click.col_left, r.click.col_right,
               r.click.join_type, TRUE).frame

\* C7: a run in which a join call returns leaves the value of that call
\* as the one held result, and shows and exports that value; a run in
\* which no join call returns leaves the held result as it was.
C7_HeldIsLatestJoin ==
    [][IF run'.joined # Absent
       THEN /\ run'.click.button \in {"spatial", "attribute"}
            /\ run'.joined = JoinCall(run')
            /\ session_state' = run'.joined
            /\ run'.exc = "none"
            /\ run'.success = Len(session_state'.rows)
            /\ IF Len(session_state'.rows) > 0
               THEN /\ run'.shown = "result"
                    /\ run'.table = head(session_state')
                    /\ run'.download = to_json(session_state')
               ELSE run'.shown = "warning"
       ELSE session_state' = session_state]_vars

\* A spatial join on touching geometries has just stored and shown its result.
C7_Witness ==
    /\ run.joined # Absent
    /\ run.click.button = "spatial"
    /\ run.click.predicate = "touches"
    /\ run.shown = "result"
    /\ session_state = run.joined

\* C8: every frame load_data returns is tagged EPSG:4326 and holds the
\* longitude/latitude coordinates of its file: the stored coordinates when
\* the file declares EPSG:4326 or nothing, their inverse projection when
\* it declares the projected system; normalizing the frame again changes
\* nothing; two loaded frames share their CRS.
C8_LoadedFramesNormalized ==
    /\ \A side \in Sides :
         IsFrame(run.gdf[side]) =>
            LET g == run.gdf[side]
                f == Upload(side)
            IN  /\ g.crs = WGS84
                /\ Len(g.rows) = Len(f.rows)
                /\ \A i \in 1..Len(g.rows) :
                     LET was == f.rows[i].geometry
                         now == g.rows[i].geometry
                     IN  /\ now.type = was.type
                         /\ IF f.crs = Projected /\ was.type # "null"
                            THEN /\ Project(now.lo) = was.lo
                                 /\ Project(now.hi) = was.hi
                            ELSE now = was
                /\ normalize_crs(g) = g
    /\ (IsFrame(run.gdf.left) /\ IsFrame(run.gdf.right))
          => run.gdf.left.crs = run.gdf.right.crs

\* A projected left file and a right file without a CRS are both loaded.
C8_Witness ==
    /\ IsFrame(run.gdf.left)
    /\ IsFrame(run.gdf.right)
    /\ left_file.crs = Projected
    /\ right_file.crs = "none"

\* C9: a run started by a join button and ended by an exception leaves the
\* held result as it was and has no join value.
C9_FailedJoinKeepsResult ==
    [][(run'.click.button # "none" /\ run'.exc # "none")
          => session_state' = session_state /\ run'.joined = Absent]_vars

\* An attribute join on the right geometry column has failed while a
\* result was held.
C9_Witness ==
    /\ run.click.button = "attribute"
    /\ run.exc = "KeyError@102"
    /\ session_state # Absent

\* C10: every run shows the held result when there is one (the table and
\* the download when it has rows, the warning when it has none), and shows
\* the upload prompt exactly when there is none.
C10_ResultAlwaysShown ==
    /\ session_state # Absent =>
          IF Len(session_state.rows) > 0
          THEN /\ run.shown = "result"
               /\ run.table = head(session_state)
               /\ run.download = to_json(session_state)
          ELSE run.shown = "warning"
    /\ run.shown = "prompt" <=> session_state = Absent

=============================================================================
